---- MODULE Spec2Model ----
(***************************************************************************)
(* Model of the Wordle candidate filter: src/src/slot.rs (Slot) and        *)
(* src/src/wordle.rs (Wordle::from, Wordle::parse_line, Wordle::update).   *)
(*                                                                         *)
(* A Rust `char` is modelled by its code point, so 'a'..='z' is 97..122,   *)
(* 'A'..='Z' is 65..90, '!' is 33, '?' is 63 and ' ' is 32.  A String is a *)
(* sequence of code points.  Slot indices are 1..5 here and 0..4 in Rust.  *)
(***************************************************************************)
EXTENDS Integers, Sequences, FiniteSets

VARIABLES
    wordlist,   \* Wordle::_wordlist : Vec<String>
    slots,      \* Wordle::_slots    : [Slot; 5], each slot its _valid set
    required,   \* Wordle::_required : HashSet<char>
    input,      \* the argument of the last update call; in main, the
                \* String input that read_line fills
    result,     \* what the last update call returned
    rounds,     \* number of update calls made so far
    seen,       \* history: the characters successful updates gave as
                \* Present (lowercase letter) and as Absent (after `!`),
                \* and whether the last call repeated the line before it
    pc,         \* where main stands; "api" when the filter is used directly
    out         \* what main printed in its last round

vars == <<wordlist, slots, required, input, result, rounds, seen, pc, out>>

(***************************************************************************)
(* Bounds of the model.                                                    *)
(***************************************************************************)
\* update calls explored per behaviour
MaxRounds == 2
\* leading signal positions of a feedback line that vary (the rest are `?`)
MaxMarked == 2
\* longest line given to parse_line in SpecParse
MaxLineLen == 7
\* longest sequence of remove calls tried on a restricted slot
MaxRemoves == 2

(***************************************************************************)
(* Characters.                                                             *)
(***************************************************************************)
\* the array length of [Slot; 5] and [Letter; 5], and the word length
N == 5
\* '!'
Bang == 33
\* '?'
Question == 63
\* ' ', the payload of the Grey produced by a bare '?'
Space == 32
\* 'a'..='z'
Lower == 97..122
\* 'A'..='Z'
Upper == 65..90

(***************************************************************************)
(* Slot (src/src/slot.rs): the value is the _valid set.                    *)
(***************************************************************************)
SlotNew == 97..122

\* the derived Default: an empty HashSet
SlotDefault == {}

\* mutant of SlotRemove: removing an absent character inserts it
SlotRemoveToggle(valid, c) == IF c \in valid THEN valid \ {c} ELSE valid \cup {c}

SlotRemove(valid, c) == valid \ {c}

\* mutant of SlotRestrict: the set is not cleared first
SlotRestrictKeep(valid, c) == valid \cup {c}

SlotRestrict(valid, c) == (valid \ valid) \cup {c}

SlotContains(valid, c) == c \in valid

(***************************************************************************)
(* Wordle::parse_line.  A Letter is [tag, c]; the Result is                *)
(* [tag |-> "Ok", arg |-> 0, letters |-> the five letters] or              *)
(* [tag |-> "InvalidToken", arg |-> the char, letters |-> <<>>] or         *)
(* [tag |-> "InvalidLength", arg |-> the count, letters |-> <<>>].         *)
(***************************************************************************)
Letter(tag, c) == [tag |-> tag, c |-> c]

\* mutant of ParseLoop: block is not reset after the Grey it produced
RECURSIVE ParseLoopSticky(_, _, _, _)
ParseLoopSticky(s, i, letters, block) ==
    IF i > Len(s)
    THEN IF Len(letters) = N
         THEN [tag |-> "Ok", arg |-> 0, letters |-> letters]
         ELSE [tag |-> "InvalidLength", arg |-> Len(letters), letters |-> <<>>]
    ELSE LET ch == s[i] IN
         IF ch = Bang THEN ParseLoopSticky(s, i + 1, letters, TRUE)
         ELSE IF block
              THEN ParseLoopSticky(s, i + 1, Append(letters, Letter("Grey", ch)), block)
         ELSE IF ch = Question
              THEN ParseLoopSticky(s, i + 1, Append(letters, Letter("Grey", Space)), block)
         ELSE IF ch \in Lower
              THEN ParseLoopSticky(s, i + 1, Append(letters, Letter("Yellow", ch)), block)
         ELSE IF ch \in Upper
              THEN ParseLoopSticky(s, i + 1, Append(letters, Letter("Green", ch)), block)
         ELSE [tag |-> "InvalidToken", arg |-> ch, letters |-> <<>>]

\* mutant of ParseLoop: a bare `?` is read as a Present signal of ' '
RECURSIVE ParseLoopQuestionPresent(_, _, _, _)
ParseLoopQuestionPresent(s, i, letters, block) ==
    IF i > Len(s)
    THEN IF Len(letters) = N
         THEN [tag |-> "Ok", arg |-> 0, letters |-> letters]
         ELSE [tag |-> "InvalidLength", arg |-> Len(letters), letters |-> <<>>]
    ELSE LET ch == s[i] IN
         IF ch = Bang THEN ParseLoopQuestionPresent(s, i + 1, letters, TRUE)
         ELSE IF block
              THEN ParseLoopQuestionPresent(s, i + 1, Append(letters, Letter("Grey", ch)), FALSE)
         ELSE IF ch = Question
              THEN ParseLoopQuestionPresent(s, i + 1, Append(letters, Letter("Yellow", Space)), block)
         ELSE IF ch \in Lower
              THEN ParseLoopQuestionPresent(s, i + 1, Append(letters, Letter("Yellow", ch)), block)
         ELSE IF ch \in Upper
              THEN ParseLoopQuestionPresent(s, i + 1, Append(letters, Letter("Green", ch)), block)
         ELSE [tag |-> "InvalidToken", arg |-> ch, letters |-> <<>>]

RECURSIVE ParseLoop(_, _, _, _)
ParseLoop(s, i, letters, block) ==
    IF i > Len(s)
    THEN IF Len(letters) = N
         THEN [tag |-> "Ok", arg |-> 0, letters |-> letters]
         ELSE [tag |-> "InvalidLength", arg |-> Len(letters), letters |-> <<>>]
    ELSE LET ch == s[i] IN
         IF ch = Bang THEN ParseLoop(s, i + 1, letters, TRUE)
         ELSE IF block
              THEN ParseLoop(s, i + 1, Append(letters, Letter("Grey", ch)), FALSE)
         ELSE IF ch = Question
              THEN ParseLoop(s, i + 1, Append(letters, Letter("Grey", Space)), block)
         ELSE IF ch \in Lower
              THEN ParseLoop(s, i + 1, Append(letters, Letter("Yellow", ch)), block)
         ELSE IF ch \in Upper
              THEN ParseLoop(s, i + 1, Append(letters, Letter("Green", ch)), block)
         ELSE [tag |-> "InvalidToken", arg |-> ch, letters |-> <<>>]

\* mutant of parse_line: InvalidLength carries the length of the line
parse_lineLineLength(s) ==
    LET p == ParseLoop(s, 1, <<>>, FALSE) IN
    IF p.tag = "InvalidLength" THEN [p EXCEPT !.arg = Len(s)] ELSE p

parse_line(s) == ParseLoop(s, 1, <<>>, FALSE)

(***************************************************************************)
(* Wordle::update.  A filter state is [wordlist, slots, required].         *)
(***************************************************************************)
\* mutant of ApplyLetter: Grey spares a character that is required
ApplyLetterGuarded(st, idx, l) ==
    IF l.tag = "Green"
    THEN [st EXCEPT !.slots[idx] = SlotRestrict(@, l.c),
                    !.required = @ \cup {l.c}]
    ELSE IF l.tag = "Yellow"
    THEN [st EXCEPT !.slots[idx] = SlotRemove(@, l.c),
                    !.required = @ \cup {l.c}]
    ELSE IF l.c \in st.required THEN st
    ELSE [st EXCEPT !.slots = [j \in 1..N |-> SlotRemove(st.slots[j], l.c)]]

\* mutant of ApplyLetter: Grey withdraws the character from the Required Set
ApplyLetterRetract(st, idx, l) ==
    IF l.tag = "Green"
    THEN [st EXCEPT !.slots[idx] = SlotRestrict(@, l.c),
                    !.required = @ \cup {l.c}]
    ELSE IF l.tag = "Yellow"
    THEN [st EXCEPT !.slots[idx] = SlotRemove(@, l.c),
                    !.required = @ \cup {l.c}]
    ELSE [st EXCEPT !.slots = [j \in 1..N |-> SlotRemove(st.slots[j], l.c)],
                    !.required = @ \ {l.c}]

\* mutant of ApplyLetter: Grey removes the character from its own slot only
ApplyLetterGreyLocal(st, idx, l) ==
    IF l.tag = "Green"
    THEN [st EXCEPT !.slots[idx] = SlotRestrict(@, l.c),
                    !.required = @ \cup {l.c}]
    ELSE IF l.tag = "Yellow"
    THEN [st EXCEPT !.slots[idx] = SlotRemove(@, l.c),
                    !.required = @ \cup {l.c}]
    ELSE [st EXCEPT !.slots[idx] = SlotRemove(@, l.c)]

\* one arm of the match, for the letter at signal position idx
ApplyLetter(st, idx, l) ==
    IF l.tag = "Green"
    THEN [st EXCEPT !.slots[idx] = SlotRestrict(@, l.c),
                    !.required = @ \cup {l.c}]
    ELSE IF l.tag = "Yellow"
    THEN [st EXCEPT !.slots[idx] = SlotRemove(@, l.c),
                    !.required = @ \cup {l.c}]
    ELSE [st EXCEPT !.slots = [j \in 1..N |-> SlotRemove(st.slots[j], l.c)]]

\* the for loop over line.iter().enumerate(), from position idx on
RECURSIVE ApplyLine(_, _, _)
ApplyLine(st, line, idx) ==
    IF idx > Len(line) THEN st
    ELSE ApplyLine(ApplyLetter(st, idx, line[idx]), line, idx + 1)

\* mutant of Keeps: the Required Set is not consulted
KeepsSlotsOnly(word, sl, req) ==
    \A i \in 1..Len(word) : SlotContains(sl[i], word[i])

\* mutant of Keeps: the slots are not consulted
KeepsRequiredOnly(word, sl, req) ==
    \A c \in req : \E i \in 1..Len(word) : word[i] = c

\* the closure given to retain
Keeps(word, sl, req) ==
    /\ \A i \in 1..Len(word) : SlotContains(sl[i], word[i])
    /\ \A c \in req : \E i \in 1..Len(word) : word[i] = c

\* mutant of Retain: the kept words are appended to the list
RetainExtend(st) ==
    [st EXCEPT !.wordlist =
        @ \o SelectSeq(st.wordlist, LAMBDA w : Keeps(w, st.slots, st.required))]

Retain(st) ==
    [st EXCEPT !.wordlist =
        SelectSeq(st.wordlist, LAMBDA w : Keeps(w, st.slots, st.required))]

\* the letters parse_line has pushed when it returns, on any path
RECURSIVE PushedLetters(_, _, _, _)
PushedLetters(s, i, letters, block) ==
    IF i > Len(s) THEN letters
    ELSE LET ch == s[i] IN
         IF ch = Bang THEN PushedLetters(s, i + 1, letters, TRUE)
         ELSE IF block
              THEN PushedLetters(s, i + 1, Append(letters, Letter("Grey", ch)), FALSE)
         ELSE IF ch = Question
              THEN PushedLetters(s, i + 1, Append(letters, Letter("Grey", Space)), block)
         ELSE IF ch \in Lower
              THEN PushedLetters(s, i + 1, Append(letters, Letter("Yellow", ch)), block)
         ELSE IF ch \in Upper
              THEN PushedLetters(s, i + 1, Append(letters, Letter("Green", ch)), block)
         ELSE letters

\* mutant of UpdateOp: each letter is applied as it is parsed, so a failing
\* line has applied its first letters (at most five) before the error
UpdateOpPartial(st, s) ==
    LET p == parse_line(s)
        pushed == PushedLetters(s, 1, <<>>, FALSE)
        first == SubSeq(pushed, 1, IF Len(pushed) < N THEN Len(pushed) ELSE N)
    IN  IF p.tag = "Ok"
        THEN [st |-> Retain(ApplyLine(st, p.letters, 1)), tag |-> "Ok", arg |-> 0]
        ELSE [st |-> ApplyLine(st, first, 1), tag |-> p.tag, arg |-> p.arg]

\* the state and the Result after update(s) in state st
UpdateOp(st, s) ==
    LET p == parse_line(s) IN
    IF p.tag = "Ok"
    THEN [st |-> Retain(ApplyLine(st, p.letters, 1)), tag |-> "Ok", arg |-> 0]
    ELSE [st |-> st, tag |-> p.tag, arg |-> p.arg]

(***************************************************************************)
(* impl From<T> for Wordle: the dictionary entries of length 5, five new   *)
(* slots, no required character.                                           *)
(***************************************************************************)
From(entries) ==
    [wordlist |-> SelectSeq(entries, LAMBDA w : Len(w) = N),
     slots    |-> [j \in 1..N |-> SlotNew],
     required |-> {}]

\* the derived Default of Wordle: empty Vec, five default slots, empty set
WordleDefault ==
    [wordlist |-> <<>>,
     slots    |-> [j \in 1..N |-> SlotDefault],
     required |-> {}]

(***************************************************************************)
(* Inputs.                                                                 *)
(***************************************************************************)
\* dictionary files: a, b, c and A are 97, 98, 99 and 65
DictionaryFiles ==
    { << <<97, 98, 97, 98, 97>>, <<98, 97, 98, 98, 98>>, <<98, 98, 98, 98, 98>>,
         <<97, 98>>, <<65, 98, 98, 98, 98>>, <<98, 98, 98, 98, 97>> >>,
      << <<98, 98, 97, 97, 98>>, <<97, 97, 97, 97, 97>>, <<98, 65, 98, 97, 98>>,
         <<98, 98, 98, 98, 98, 98>>, <<99, 98, 98, 98, 98>> >> }

\* the tokens of a marked position: a, A, !a, !A, ?
Tokens == { <<97>>, <<65>>, <<33, 97>>, <<33, 65>>, <<63>> }

RECURSIVE Flatten(_)
Flatten(ts) == IF ts = <<>> THEN <<>> ELSE Head(ts) \o Flatten(Tail(ts))

\* lines of five signals: MaxMarked tokens, then `?` to the end
GoodLines ==
    { Flatten(h) \o [j \in 1..(N - MaxMarked) |-> Question] :
        h \in [1..MaxMarked -> Tokens] }

\* lines update rejects: "", "aA!a", "aA!a???", "aA??1", "a!A1??", "!Aa??!"
BadLines ==
    { <<>>, <<97, 65, 33, 97>>, <<97, 65, 33, 97, 63, 63, 63>>,
      <<97, 65, 63, 63, 49>>, <<97, 33, 65, 49, 63, 63>>,
      <<33, 65, 97, 63, 63, 33>> }

\* lines of five signals that name b and B (98 and 66):
\* "??b??", "??!b??", "a?b!a?", "??!bb?", "?!aB?b", "b!a???"
MixedLines ==
    { <<63, 63, 98, 63, 63>>, <<63, 63, 33, 98, 63, 63>>,
      <<97, 63, 98, 33, 97, 63>>, <<63, 63, 33, 98, 98, 63>>,
      <<63, 33, 97, 66, 63, 98>>, <<98, 33, 97, 63, 63, 63>> }

FeedbackLines == GoodLines \cup MixedLines \cup BadLines

\* every line of at most MaxLineLen characters over a, A, !, ? and 1
ParseAlphabet == {97, 65, 33, 63, 49}

ParseLines == UNION { [1..n -> ParseAlphabet] : n \in 0..MaxLineLen }

(***************************************************************************)
(* History of the feedback given, read off the text of the lines.          *)
(***************************************************************************)
\* the character at place i of line s is not directly after a `!`
Unprefixed(s, i) == i = 1 \/ s[i - 1] # Bang

\* the lowercase letters line s gives unprefixed
PresentOf(s) ==
    { s[i] : i \in { k \in 1..Len(s) : s[k] \in Lower /\ Unprefixed(s, k) } }

\* the characters line s gives directly after a `!`
AbsentOf(s) ==
    { s[i] : i \in { k \in 2..Len(s) : s[k] # Bang /\ s[k - 1] = Bang } }

NothingSeen == [present |-> {}, absent |-> {}, again |-> FALSE]

\* the history after update(s) returned tag; again says that s is the line
\* of the call before, which succeeded
Saw(s, tag) ==
    [present |-> IF tag = "Ok" THEN seen.present \cup PresentOf(s) ELSE seen.present,
     absent  |-> IF tag = "Ok" THEN seen.absent \cup AbsentOf(s) ELSE seen.absent,
     again   |-> result.tag = "Ok" /\ s = input]

\* main has printed nothing
NoOutput == [guess |-> 0, count |-> 0, listed |-> FALSE, words |-> <<>>, panic |-> ""]

(***************************************************************************)
(* The filter behind its API: construction, then update calls.             *)
(***************************************************************************)
State == [wordlist |-> wordlist, slots |-> slots, required |-> required]

Init ==
    /\ \E d \in DictionaryFiles :
         LET w == From(d) IN
         /\ wordlist = w.wordlist
         /\ slots = w.slots
         /\ required = w.required
    /\ input = <<>>
    /\ result = [tag |-> "None", arg |-> 0]
    /\ rounds = 0
    /\ seen = NothingSeen
    /\ pc = "api"
    /\ out = NoOutput

update(s) ==
    /\ rounds < MaxRounds
    /\ LET r == UpdateOp(State, s) IN
         /\ wordlist' = r.st.wordlist
         /\ slots' = r.st.slots
         /\ required' = r.st.required
         /\ result' = [tag |-> r.tag, arg |-> r.arg]
         /\ seen' = Saw(s, r.tag)
    /\ input' = s
    /\ rounds' = rounds + 1
    /\ UNCHANGED <<pc, out>>

Next == \E s \in FeedbackLines : update(s)

Spec == Init /\ [][Next]_vars

\* the filter built by either constructor, Wordle::from or Wordle::default
InitConstruct ==
    /\ \E w \in { From(d) : d \in DictionaryFiles } \cup { WordleDefault } :
         /\ wordlist = w.wordlist
         /\ slots = w.slots
         /\ required = w.required
    /\ input = <<>>
    /\ result = [tag |-> "None", arg |-> 0]
    /\ rounds = 0
    /\ seen = NothingSeen
    /\ pc = "api"
    /\ out = NoOutput

SpecConstruct == InitConstruct /\ [][Next]_vars

\* one update call on a new filter, over every line of ParseLines
NextParse == rounds = 0 /\ \E s \in ParseLines : update(s)

SpecParse == Init /\ [][NextParse]_vars

(***************************************************************************)
(* main (src/src/main.rs): the interactive session.  pc is "prompt" at the *)
(* top of the loop body, "update" once a line is read, "list" once update  *)
(* returned Ok, "done" after the loop and "panic" after a failed expect.   *)
(* out is what the current round wrote: the guess number and word count of *)
(* the header line, the word list if it was printed, and the panic         *)
(* message.  rounds counts the update calls, so guess = rounds + 1.        *)
(***************************************************************************)
\* for guess in 1..=6
Guesses == 6
\* if wordle.len() < 400
ListBelow == 400

\* characters str::trim strips: tab, line feed, carriage return, space
Whitespace == {9, 10, 13, Space}

RECURSIVE TrimStart(_)
TrimStart(s) ==
    IF s # <<>> /\ Head(s) \in Whitespace THEN TrimStart(Tail(s)) ELSE s

RECURSIVE TrimEnd(_)
TrimEnd(s) ==
    IF s # <<>> /\ s[Len(s)] \in Whitespace
    THEN TrimEnd(SubSeq(s, 1, Len(s) - 1)) ELSE s

\* input.trim()
Trim(s) == TrimEnd(TrimStart(s))

\* mutant of ShouldList: the list is printed up to the threshold inclusive
ShouldListUpTo(n) == n <= ListBelow

\* the condition of the if that guards the printing of the list
ShouldList(n) == n < ListBelow

\* the k-th word over c..g, k counted from 0
BaseWord(k) == [i \in 1..N |-> 99 + ((k \div (5 ^ (N - i))) % 5)]

\* a word file around the threshold: ListBelow - 1 words over c..g, then
\* "bcccc", "abccc" and "cd"; ListBelow + 1 entries have five letters,
\* ListBelow of them are without a and ListBelow - 1 without b
ThresholdFile ==
    [k \in 1..(ListBelow - 1) |-> BaseWord(k - 1)]
        \o << <<98, 99, 99, 99, 99>>, <<97, 98, 99, 99, 99>>, <<99, 100>> >>

WordFiles == DictionaryFiles \cup {ThresholdFile}

\* what read_line can put in input: "?????\n", "!a????\n", " !b????\r\n",
\* "c????\n", "?D???\n", "????1\n", "??\n", and "" at end of file
StdinLines ==
    { <<63, 63, 63, 63, 63, 10>>, <<33, 97, 63, 63, 63, 63, 10>>,
      <<32, 33, 98, 63, 63, 63, 63, 13, 10>>, <<99, 63, 63, 63, 63, 10>>,
      <<63, 68, 63, 63, 63, 10>>, <<63, 63, 63, 63, 49, 10>>,
      <<63, 63, 10>>, <<>> }

InitMain ==
    /\ \E d \in WordFiles :
         LET w == From(d) IN
         /\ wordlist = w.wordlist
         /\ slots = w.slots
         /\ required = w.required
    /\ input = <<>>
    /\ result = [tag |-> "None", arg |-> 0]
    /\ rounds = 0
    /\ seen = NothingSeen
    /\ pc = "prompt"
    /\ out = NoOutput

\* println of the header, input.clear(), read_line(..).expect(..)
MainRead ==
    /\ pc = "prompt"
    /\ LET header == [NoOutput EXCEPT !.guess = rounds + 1, !.count = Len(wordlist)] IN
       \/ \E line \in StdinLines :
             /\ input' = line
             /\ out' = header
             /\ pc' = "update"
       \/ /\ input' = <<>>
          /\ out' = [header EXCEPT !.panic = "Failed to read input"]
          /\ pc' = "panic"
    /\ UNCHANGED <<wordlist, slots, required, result, rounds, seen>>

\* wordle.update(input.trim()).expect(..)
MainUpdate ==
    /\ pc = "update"
    /\ LET r == UpdateOp(State, Trim(input)) IN
       /\ wordlist' = r.st.wordlist
       /\ slots' = r.st.slots
       /\ required' = r.st.required
       /\ result' = [tag |-> r.tag, arg |-> r.arg]
       /\ IF r.tag = "Ok"
          THEN pc' = "list" /\ out' = out
          ELSE pc' = "panic" /\ out' = [out EXCEPT !.panic = "Failed to parse input"]
    /\ rounds' = rounds + 1
    /\ UNCHANGED <<input, seen>>

\* the if that prints the words, and the step of the for loop
MainList ==
    /\ pc = "list"
    /\ out' = IF ShouldList(Len(wordlist))
              THEN [out EXCEPT !.listed = TRUE, !.words = wordlist]
              ELSE out
    /\ pc' = IF rounds = Guesses THEN "done" ELSE "prompt"
    /\ UNCHANGED <<wordlist, slots, required, input, result, rounds, seen>>

NextMain == MainRead \/ MainUpdate \/ MainList

\* main leaves every position that is not its end
MainStep ==
    /\ pc \notin {"done", "panic"}
    /\ pc' \in {"prompt", "update", "list", "done", "panic"}

\* a call in progress returns: read_line is given a line, the end of the
\* file or an error, and update and println are finite computations
SpecMain == InitMain /\ [][NextMain]_vars /\ WF_pc(MainStep)

(***************************************************************************)
(* Vocabulary of the properties.                                           *)
(***************************************************************************)
\* the last update call succeeded
Succeeded == result.tag = "Ok"

\* the last update call failed
Failed == result.tag \in {"InvalidToken", "InvalidLength"}

\* the five signals of a line update accepts
LettersOf(s) == parse_line(s).letters

\* the characters a feedback line may be made of: [a-zA-Z!?]
Recognised == Lower \cup Upper \cup {Bang, Question}

\* the characters line s gives as Exact or Present: its unprefixed letters
Marked(s) ==
    { s[i] : i \in { k \in 1..Len(s) : s[k] \in Lower \cup Upper /\ Unprefixed(s, k) } }

\* the lowercase form of a character
ToLower(c) == IF c \in Upper THEN c + 32 ELSE c

\* a is a subsequence of b
RECURSIVE IsSubsequence(_, _)
IsSubsequence(a, b) ==
    IF a = <<>> THEN TRUE
    ELSE IF b = <<>> THEN FALSE
    ELSE IF Head(a) = Head(b) THEN IsSubsequence(Tail(a), Tail(b))
    ELSE IsSubsequence(a, Tail(b))

\* characters the per-signal statements range over: a, b, A, ' ', 1
ProbeChars == {97, 98, 65, 32, 49}

(***************************************************************************)
(* C1.  After a successful update whose line has an unprefixed uppercase   *)
(* letter X at signal position i, slot i permits exactly the lowercase x   *)
(* and the Required Set contains the lowercase x.                          *)
(* The code keeps X as typed: violated by update("A????").                 *)
(***************************************************************************)
C1_ExactRestrictsToLowercase ==
    Succeeded =>
        \A i \in 1..N :
            LET l == LettersOf(input)[i] IN
            l.tag = "Green" =>
                /\ slots[i] = {ToLower(l.c)}
                /\ ToLower(l.c) \in required

C3_AbsentSparesRequired ==
    [][ result'.tag = "Ok" =>
          \A i \in 1..N :
              LET line == LettersOf(input')
                  c    == line[i].c
              IN  ( /\ line[i].tag = "Grey"
                    /\ \/ c \in required
                       \/ \E k \in 1..(i - 1) :
                              line[k].tag \in {"Yellow", "Green"} /\ line[k].c = c )
                  => \A j \in 1..N :
                         (c \in slots[j] /\ line[j].tag = "Grey") => c \in slots'[j]
      ]_vars

(***************************************************************************)
(* C4.  A failed update (InvalidToken or InvalidLength) leaves the five    *)
(* slots, the Required Set and the Candidate List exactly as they were.    *)
(***************************************************************************)
C4_FailedUpdateChangesNothing ==
    [][ result'.tag \in {"InvalidToken", "InvalidLength"}
            => UNCHANGED <<wordlist, slots, required>> ]_vars

\* an update failed after a valid Present signal for a letter that is
\* not required: nothing of the valid prefix was applied
C4_Witness ==
    /\ Failed
    /\ Len(input) > 1
    /\ input[1] \in Lower
    /\ input[1] \notin required
    /\ input[1] \in slots[1]
    /\ required # {}

(***************************************************************************)
(* C5.  Every update whose line contains a character outside [a-zA-Z!?],   *)
(* at any place, fails with InvalidToken carrying such a character.        *)
(* The code takes any character directly after `!` as an Absent signal:    *)
(* violated by update("!1"), InvalidLength(1), and update("!1aaaa"), Ok.   *)
(***************************************************************************)
C5_UnrecognisedCharacterFails ==
    (rounds > 0 /\ \E i \in 1..Len(input) : input[i] \notin Recognised) =>
        /\ result.tag = "InvalidToken"
        /\ result.arg \in { input[i] : i \in 1..Len(input) } \ Recognised

(***************************************************************************)
(* C6.  On a line made only of characters of [a-zA-Z!?], with k the number *)
(* of its characters that are not `!` (each gives one signal), update      *)
(* succeeds iff k = 5 and otherwise fails with InvalidLength(k).           *)
(***************************************************************************)
C6_LengthDecidesSuccess ==
    (rounds > 0 /\ \A i \in 1..Len(input) : input[i] \in Recognised) =>
        LET k == Cardinality({ i \in 1..Len(input) : input[i] # Bang }) IN
        IF k = N
        THEN result = [tag |-> "Ok", arg |-> 0]
        ELSE result = [tag |-> "InvalidLength", arg |-> k]

\* a line of recognised characters with more than five signals, one of them
\* after a `!`, was refused
C6_Witness ==
    /\ result.tag = "InvalidLength"
    /\ result.arg > N
    /\ \A i \in 1..Len(input) : input[i] \in Recognised
    /\ \E i \in 1..Len(input) : input[i] = Bang

(***************************************************************************)
(* C7.  The Candidate List never regrows: after each update call,          *)
(* successful or failed, it is a subsequence of the list before the call,  *)
(* so its length does not increase.                                        *)
(***************************************************************************)
C7_CandidatesNeverRegrow ==
    [][ /\ IsSubsequence(wordlist', wordlist)
        /\ Len(wordlist') <= Len(wordlist) ]_vars

\* after two update calls, the last one successful, a single word is left
C7_Witness ==
    /\ Succeeded
    /\ rounds = 2
    /\ Len(wordlist) = 1

(***************************************************************************)
(* C8.  No update makes a slot permit a character it did not permit        *)
(* before: each slot after an update is a subset of the slot before it.    *)
(* The code's restrict inserts its character: violated by update("A????"). *)
(***************************************************************************)
C8_SlotsOnlyShrink ==
    [][ \A j \in 1..N : slots'[j] \subseteq slots[j] ]_vars

C10_Passes(w, sl, req) ==
    /\ \A i \in 1..Len(w) : w[i] \in sl[i]
    /\ req \subseteq { w[i] : i \in 1..Len(w) }

C10_RetainedIffConsistent ==
    [][ result'.tag = "Ok" =>
          LET sl  == slots'
              req == required'
          IN  wordlist' = SelectSeq(wordlist, LAMBDA w : C10_Passes(w, sl, req))
      ]_vars

\* the letter a was given as Present twice in one line, and a word with a
\* single a is still a candidate while the list has lost words
C10_Witness ==
    /\ Succeeded
    /\ Cardinality({ i \in 1..N : LettersOf(input)[i] = Letter("Yellow", 97) }) = 2
    /\ \E k \in 1..Len(wordlist) :
           Cardinality({ i \in 1..N : wordlist[k][i] = 97 }) = 1
    /\ Len(wordlist) < 3

C12_SignalAt(s, k) ==
    IF ~Unprefixed(s, k) THEN Letter("Grey", s[k])
    ELSE IF s[k] \in Lower THEN Letter("Yellow", s[k])
    ELSE IF s[k] \in Upper THEN Letter("Green", s[k])
    ELSE Letter("Grey", Space)

RECURSIVE C12_Signals(_, _)
C12_Signals(s, k) ==
    IF k > Len(s) THEN <<>>
    ELSE IF s[k] = Bang THEN C12_Signals(s, k + 1)
    ELSE <<C12_SignalAt(s, k)>> \o C12_Signals(s, k + 1)

C12_HasInvalidToken(s) ==
    \E k \in 1..Len(s) : Unprefixed(s, k) /\ s[k] \notin Recognised

C12_SignalsInOrder ==
    /\ (rounds > 0 /\ ~C12_HasInvalidToken(input)) =>
           LET k == Cardinality({ i \in 1..Len(input) : input[i] # Bang }) IN
           /\ Len(C12_Signals(input, 1)) = k
           /\ IF k = N
              THEN Succeeded /\ LettersOf(input) = C12_Signals(input, 1)
              ELSE result = [tag |-> "InvalidLength", arg |-> k]
    /\ parse_line(<<99, 33, 114, 33, 97, 110, 33, 101>>).letters
           = << Letter("Yellow", 99), Letter("Grey", 114), Letter("Grey", 97),
                Letter("Yellow", 110), Letter("Grey", 101) >>
    /\ parse_line(<<33, 112, 33, 108, 111, 33, 121, 33, 115>>).letters
           = << Letter("Grey", 112), Letter("Grey", 108), Letter("Yellow", 111),
                Letter("Grey", 121), Letter("Grey", 115) >>

\* a line of five signals with a doubled `!` and a letter right after an
\* Absent one was accepted
C12_Witness ==
    /\ Succeeded
    /\ \E i \in 1..(Len(input) - 3) :
           /\ input[i] = Bang
           /\ input[i + 1] = Bang
           /\ input[i + 2] \in Upper
           /\ input[i + 3] \in Lower

(***************************************************************************)
(* C13.  The Absent form is case-insensitive: a successful update leaves   *)
(* the slots, Required Set and Candidate List that the same line with the  *)
(* uppercase letters after `!` written in lowercase would leave, and after *)
(* a successful update with `!X` no slot permits the lowercase x.          *)
(* The code removes the character as typed: violated by "!A????", which    *)
(* leaves 'a' in every slot, against "!a????".                             *)
(***************************************************************************)
C13_LowerAbsent(s) ==
    [k \in 1..Len(s) |->
        IF ~Unprefixed(s, k) /\ s[k] \in Upper THEN s[k] + 32 ELSE s[k]]

C13_AbsentIgnoresCase ==
    [][ result'.tag = "Ok" =>
          /\ [wordlist |-> wordlist', slots |-> slots', required |-> required']
                 = UpdateOp(State, C13_LowerAbsent(input')).st
          /\ \A c \in AbsentOf(input') \cap Upper :
                 \A j \in 1..N : (c + 32) \notin slots'[j]
      ]_vars

(***************************************************************************)
(* C14.  A default slot permits exactly the 26 lowercase letters, whether  *)
(* it comes from Slot::new() or from the derived Slot::default(), and a    *)
(* filter just built, by Wordle::from or by the derived Wordle::default(), *)
(* has five slots permitting the full alphabet and no required character.  *)
(* The derived defaults are empty: violated by Wordle::default().          *)
(***************************************************************************)
C14_ConstructedUnconstrained ==
    /\ SlotNew = Lower /\ Cardinality(SlotNew) = 26
    /\ SlotDefault = Lower
    /\ rounds = 0 =>
           /\ \A j \in 1..N : slots[j] = Lower
           /\ required = {}

(***************************************************************************)
(* C15.  After restrict(c) a slot contains d iff d = c; after any further  *)
(* remove calls it permits at most c, and remove(c) empties it.  Checked   *)
(* on every slot of every reachable state, and on the update itself: a     *)
(* slot given an Exact signal permits at most that signal's character      *)
(* when the update returns, whatever Absent signals followed in the line.  *)
(***************************************************************************)
RECURSIVE C15_RemoveAll(_, _)
C15_RemoveAll(valid, cs) ==
    IF cs = <<>> THEN valid
    ELSE C15_RemoveAll(SlotRemove(valid, Head(cs)), Tail(cs))

\* the characters restricted to and removed: a, A and ' '
C15_Chars == {97, 65, 32}

C15_RestrictIsFinal ==
    /\ \A valid \in { slots[j] : j \in 1..N } : \A c \in C15_Chars :
           LET r == SlotRestrict(valid, c) IN
           /\ \A d \in Lower \cup Upper \cup C15_Chars :
                  SlotContains(r, d) <=> d = c
           /\ SlotRemove(r, c) = {}
           /\ \A n \in 0..MaxRemoves : \A cs \in [1..n -> C15_Chars] :
                  /\ C15_RemoveAll(r, cs) \subseteq {c}
                  /\ (\A i \in 1..n : cs[i] # c) => C15_RemoveAll(r, cs) = {c}
    /\ Succeeded =>
           \A j \in 1..N :
               LET l == LettersOf(input)[j] IN
               l.tag = "Green" => slots[j] \subseteq {l.c}

\* a slot was restricted by an Exact signal and then emptied by a later
\* Absent signal for the same character, as in "A!A???"
C15_Witness ==
    /\ Succeeded
    /\ \E j \in 1..N :
           LET l == LettersOf(input)[j] IN
           /\ l.tag = "Green"
           /\ slots[j] = {}
           /\ l.c \in AbsentOf(input)

(***************************************************************************)
(* C16.  Applying again a feedback line that was just applied changes      *)
(* nothing: an update with the line of the previous, successful update     *)
(* succeeds and leaves slots, Required Set and Candidate List as they      *)
(* were; in every state reached by a successful update, one more update    *)
(* with the same line returns that state; and removing from a slot a       *)
(* character it no longer permits leaves the slot as it is.                *)
(***************************************************************************)
C16_ReapplyingIsNoOp ==
    /\ [][ (result.tag = "Ok" /\ input' = input) =>
              /\ result'.tag = "Ok"
              /\ UNCHANGED <<wordlist, slots, required>> ]_vars
    /\ [](Succeeded => UpdateOp(State, input) = [st |-> State, tag |-> "Ok", arg |-> 0])
    /\ [](\A j \in 1..N : \A c \in ProbeChars :
              c \notin slots[j] => SlotRemove(slots[j], c) = slots[j])

\* a line with a Present and an Absent lowercase letter has been applied
\* twice in a row, and a candidate is left
C16_Witness ==
    /\ Succeeded
    /\ seen.again
    /\ wordlist # <<>>
    /\ PresentOf(input) # {}
    /\ AbsentOf(input) \cap Lower # {}

(***************************************************************************)
(* C17.  A bare `?`, one not directly after a `!`, is one of the five       *)
(* signals of its line and is an Absent signal whose payload is ' ': it    *)
(* changes the permitted set of no slot and adds nothing to the Required   *)
(* Set, so an update with the line "?????" succeeds and leaves slots and   *)
(* Required Set as they were.                                              *)
(***************************************************************************)
C17_FiveQuestions == [j \in 1..N |-> Question]

C17_BareQuestionIsInert ==
    /\ [][ input' = C17_FiveQuestions =>
              /\ result'.tag = "Ok"
              /\ UNCHANGED <<slots, required>> ]_vars
    /\ [](\A idx \in 1..N :
              LET after == ApplyLetter(State, idx, Letter("Grey", Space)) IN
              /\ after.slots = slots
              /\ after.required = required)
    /\ [](Succeeded =>
              \A i \in 1..Len(input) :
                  (input[i] = Question /\ Unprefixed(input, i)) =>
                      LettersOf(input)[Cardinality({ k \in 1..i : input[k] # Bang })]
                          = Letter("Grey", Space))

\* "?????" was applied to a filter that an earlier round had narrowed, with
\* a candidate left
C17_Witness ==
    /\ Succeeded
    /\ input = C17_FiveQuestions
    /\ required # {}
    /\ \E j \in 1..N : slots[j] # SlotNew
    /\ wordlist # <<>>

C19_Terminated == pc \in {"done", "panic"}

\* a round has run through: the loop is back at its top, or over
C19_RoundDone == (pc = "prompt" /\ rounds > 0) \/ pc = "done"

C19_ListedIffBelow ==
    C19_RoundDone =>
        /\ out.guess = rounds
        /\ out.listed <=> Len(wordlist) < ListBelow
        /\ out.listed => out.words = wordlist

C20_RoundOrderIrrelevant ==
    [][ (rounds = 1 /\ Succeeded /\ result'.tag = "Ok") =>
            \A d \in DictionaryFiles :
                UpdateOp(From(d), input).st = State =>
                    UpdateOp(UpdateOp(From(d), input').st, input).st.wordlist
                        = wordlist' ]_vars

=============================================================================
